---- MODULE Spec2Model ----
(***************************************************************************)
(* Model of lambda_handler.py: the garage-door Lambda handler, the         *)
(* MyQGarageDoor session object and the needs_security_token decorator.    *)
(*                                                                         *)
(* The Python call stack of the door object is explicit (stack): the       *)
(* decorator, _login and _get_opener call each other recursively, so the   *)
(* retry behaviour is only visible with the frames spelled out.  Every     *)
(* remote call (POST login, GET device list, PUT state change) is one      *)
(* step whose response is chosen nondeterministically.                     *)
(***************************************************************************)
EXTENDS Integers, Sequences, FiniteSets, TLC

\* ---------------------------------------------------------------- bounds
\* Python's recursion limit, scaled down: a call that would make the door
\* object's stack deeper than this raises RecursionError.
MaxDepth == 6

\* ------------------------------------------------------- program constants
EARLIEST_ALLOWED == 7
LATEST_ALLOWED == 17
\* esthour = now.hour - 5
EstOffset == 5
\* len('code=')
PrefixLen == 5
\* the value open_door / close_door pass to _set_door_state
open_door == 1
close_door == 0

None == "None"

\* ------------------------------------------------------------- input data
\* Strings that are sliced are sequences of characters.
CodePrefix == <<"c", "o", "d", "e", "=">>
Junk5 == <<"x", "x", "x", "x", "x">>
NoBody == <<"<no body-json>">>

\* the decrypted CLEANER_CODE / FAMILY_CODE values considered
Codes == {<<"1">>, <<"2">>}

\* event['body-json'] values considered: well-formed payloads for either
\* code and for a wrong code, the bare prefix, the empty payload, a bare
\* code without prefix, a payload with five other characters in front of a
\* code; NoBody stands for an event without the 'body-json' key.
Payloads ==
    {CodePrefix \o c : c \in Codes \cup {<<"9">>}}
        \cup {CodePrefix, <<>>, <<"1">>, Junk5 \o <<"2">>, NoBody}

Hours == 0..23
Weekdays == 0..6
\* decrypted CLEANER_DAY values considered
CleanerDays == {"Thursday", "Sunday"}

\* now.strftime('%A'), for datetime.weekday() numbering (Monday is 0)
DayName(d) ==
    <<"Monday", "Tuesday", "Wednesday", "Thursday", "Friday", "Saturday",
      "Sunday">>[d + 1]

\* s[n:] of Python
DropPrefix(s, n) == IF Len(s) <= n THEN <<>> ELSE SubSeq(s, n + 1, Len(s))

\* --------------------------------------------------------- remote answers
\* raise_for_status() raises requests.HTTPError for both failure statuses.
Statuses == {"ok", "unauthorized", "servererror"}

Dev(t, i, v) == [type |-> t, id |-> i, doorstate |-> v]

\* response.json()['Devices'] values considered; doorstate None means the
\* device has no attribute named doorstate.
DeviceLists ==
    {<<>>}
        \cup {<<Dev("GarageDoorOpener", "d1", v)>> :
                  v \in {"1", "2", "4", "5", "9", None}}
        \cup {<<Dev("Gateway", "g1", "1")>>,
              <<Dev("GarageDoorOpener", "d1", "1"),
                Dev("GarageDoorOpener", "d2", "2")>>,
              <<Dev("GarageDoorOpener", "d1", "2"),
                Dev("GarageDoorOpener", "d2", None)>>}

\* login answers: does the JSON body carry 'SecurityToken'
LoginBodies == {"token", "notoken"}

\* ------------------------------------------------------------------ state
VARIABLES
    pc,              \* handler: "idle", the line it is at, or "done"
    event,           \* event['body-json']
    hour,            \* now.hour
    weekday,         \* now.weekday()
    CLEANER_CODE,
    FAMILY_CODE,
    CLEANER_DAY,
    code,            \* handler local `code`
    outcome,         \* branch of the handler taken
    state,           \* handler local `state`
    response,        \* value returned by the wrapped handler
    raised,          \* exception that reached wrap_handler
    security_token,  \* door._security_token
    opener_id,       \* door._opener_id
    opener_state,    \* door._opener_state
    stack,           \* frames of the door object's calls, top last
    ret,             \* value returned by the call that returned last
    nLogin,          \* login requests posted in this invocation
    queried,         \* a device-list query was sent in this invocation
    sent,            \* state-change requests sent in this invocation
    noToken,         \* "seen": a login answer of this invocation lacked the
                     \* token; "continued": a remote call was made after it
    warm             \* the function has handled an event before

vars ==
    <<pc, event, hour, weekday, CLEANER_CODE, FAMILY_CODE, CLEANER_DAY, code,
      outcome, state, response, raised, security_token, opener_id,
      opener_state, stack, ret, nLogin, queried, sent, noToken, warm>>

inputVars ==
    <<event, hour, weekday, CLEANER_CODE, FAMILY_CODE, CLEANER_DAY, code,
      outcome>>
doorVars == <<security_token, opener_id, opener_state>>
logVars == <<nLogin, queried, sent, noToken>>

\* ----------------------------------------------------------------- frames
\* logins0: the logins posted before the call; held: whether the decorator
\* found a token at line 26; state: the local `state` of toggle_door;
\* answer: the device list of the query that let _get_opener return
Frame(fn, at, func, value) ==
    [fn |-> fn, at |-> at, func |-> func, value |-> value, err |-> None,
     attempts |-> 0, logins0 |-> nLogin, held |-> None, state |-> None,
     answer |-> <<>>]

Top == stack[Len(stack)]
Pop == SubSeq(stack, 1, Len(stack) - 1)
TopIs(fn, at) == Len(stack) > 0 /\ Top.fn = fn /\ Top.at = at
\* the top frame moved to another line
Goto(at) == [stack EXCEPT ![Len(stack)].at = at]

Exceptions ==
    {"HTTPError", "AssertionError", "KeyError", "RecursionError", "KMSError"}

\* an except clause that names the HTTP failures only
WrapHandlerCatches_HTTPOnly(exc) == exc = "HTTPError"

\* wrap_handler: `except Exception` catches every exception class above
WrapHandlerCatches(exc) == exc \in Exceptions

\* An exception that no frame of the door object catches: it unwinds the
\* whole stack and the handler, and reaches wrap_handler.
Propagate(exc) ==
    /\ stack' = <<>>
    /\ pc' = "done"
    /\ raised' = exc
    /\ response' =
           IF WrapHandlerCatches(exc) THEN "Internal error" ELSE "<unhandled>"

\* A call: pushes frame f, or raises RecursionError at the depth limit.
\* `base` is the caller's stack with its own line already advanced.
Call(base, f) ==
    IF Len(base) < MaxDepth
    THEN /\ stack' = Append(base, f)
         /\ UNCHANGED <<pc, raised, response>>
    ELSE Propagate("RecursionError")

\* ------------------------------------------------------------ MyQGarageDoor
DOORSTATE_MAP(v) ==
    CASE v = "1" -> "Open"
      [] v = "2" -> "Closed"
      [] v = "4" -> "Opening"
      [] v = "5" -> "Closing"
      [] OTHER -> "Unknown"

\* the loop of _get_opener over the devices, from the fields held before
RECURSIVE ScanDevices(_, _, _)
ScanDevices(devs, id, st) ==
    IF devs = <<>>
    THEN <<id, st>>
    ELSE LET d == Head(devs)
             match == d.type = "GarageDoorOpener"
             id2 == IF match THEN d.id ELSE id
             st2 == IF match /\ d.doorstate # None THEN d.doorstate ELSE st
         IN ScanDevices(Tail(devs), id2, st2)

\* an undetermined state answered by opening
ToggleValue_FailOpen(s) ==
    IF s \in {"Open", "Opening"} THEN close_door ELSE open_door

\* the command toggle_door chooses for the state check_door_state returned
ToggleValue(s) ==
    IF s \in {"Open", "Opening"} THEN close_door
    ELSE IF s \in {"Closed", "Closing"} THEN open_door
    ELSE close_door

\* the decorator retries after these exceptions of the wrapped function
WrapperRetriesOn(exc) == exc = "HTTPError"

\* wrapper, line 26-27: logs in first when no token is held
WrapperEntry ==
    /\ TopIs("wrapper", "L26")
    /\ LET entered == [stack EXCEPT ![Len(stack)].at = "L29",
                                     ![Len(stack)].held =
                                         IF security_token # None
                                         THEN "yes" ELSE "no"]
       IN IF security_token = None
          THEN Call(entered, Frame("_login", "L64", None, None))
          ELSE stack' = entered /\ UNCHANGED <<pc, raised, response>>
    /\ UNCHANGED <<inputVars, state, doorVars, ret, logVars>>
    /\ UNCHANGED warm

\* a remote call is made: the monitor of calls after a token-less answer
Continued == IF noToken = "seen" THEN "continued" ELSE noToken

\* the body of _get_opener (lines 76-85) answered with status st and
\* device list devs; result is "ok" or the exception raised
GetOpenerBody(st, devs) ==
    LET scan == ScanDevices(devs, opener_id, opener_state)
    IN /\ queried' = TRUE
       /\ noToken' = Continued
       /\ UNCHANGED <<security_token, nLogin, sent>>
       /\ IF st = "ok"
          THEN opener_id' = scan[1] /\ opener_state' = scan[2]
          ELSE UNCHANGED <<opener_id, opener_state>>

\* the assert of line 85 left out
GetOpenerResult_NoAssert(st, devs) == IF st # "ok" THEN "HTTPError" ELSE "ok"

\* the outcome of _get_opener: raise_for_status (line 78), the assert (85)
GetOpenerResult(st, devs) ==
    IF st # "ok" THEN "HTTPError"
    ELSE IF ScanDevices(devs, opener_id, opener_state)[1] = None
    THEN "AssertionError"
    ELSE "ok"

\* a request that takes its value from the door state held when it is sent
SetDoorStateBody_Recompute(value, st) ==
    /\ sent' = Append(sent, [value |-> ToggleValue(DOORSTATE_MAP(opener_state)),
                             token |-> security_token,
                             id |-> opener_id, status |-> st])
    /\ noToken' = Continued
    /\ UNCHANGED <<doorVars, nLogin, queried>>

\* the body of _set_door_state (lines 95-100) answered with status st
SetDoorStateBody(value, st) ==
    /\ sent' = Append(sent, [value |-> value, token |-> security_token,
                             id |-> opener_id, status |-> st])
    /\ noToken' = Continued
    /\ UNCHANGED <<doorVars, nLogin, queried>>

\* raise_for_status of line 100 left out
SetDoorStateResult_Unchecked(st) == "ok"

\* the outcome of _set_door_state: raise_for_status (line 100)
SetDoorStateResult(st) == IF st = "ok" THEN "ok" ELSE "HTTPError"

\* the wrapped function runs once, with the answer (st, devs)
FuncBody(st, devs) ==
    IF Top.func = "get"
    THEN GetOpenerBody(st, devs)
    ELSE SetDoorStateBody(Top.value, st)

FuncResult(st, devs) ==
    IF Top.func = "get" THEN GetOpenerResult(st, devs)
    ELSE SetDoorStateResult(st)

\* wrapper, lines 28-32: the first run of the wrapped function; HTTPError
\* is caught and _login is called from the except clause
WrapperTry ==
    /\ TopIs("wrapper", "L29")
    /\ \E st \in Statuses, devs \in DeviceLists :
          /\ Top.func = "set" => devs = <<>>
          /\ st # "ok" => devs = <<>>
          /\ FuncBody(st, devs)
          /\ LET res == FuncResult(st, devs)
                 tried == [stack EXCEPT ![Len(stack)].attempts = 1]
             IN IF res = "ok"
                THEN /\ stack' = [tried EXCEPT ![Len(stack)].at = "ret",
                                               ![Len(stack)].answer = devs]
                     /\ UNCHANGED <<pc, raised, response>>
                ELSE IF WrapperRetriesOn(res)
                THEN Call([tried EXCEPT ![Len(stack)].at = "L33",
                                        ![Len(stack)].err = st],
                          Frame("_login", "L64", None, None))
                ELSE Propagate(res)
    /\ UNCHANGED <<inputVars, state, ret>>
    /\ UNCHANGED warm

\* wrapper, line 33: the second run, outside the try
WrapperRetry ==
    /\ TopIs("wrapper", "L33")
    /\ \E st \in Statuses, devs \in DeviceLists :
          /\ Top.func = "set" => devs = <<>>
          /\ st # "ok" => devs = <<>>
          /\ FuncBody(st, devs)
          /\ LET res == FuncResult(st, devs)
             IN IF res = "ok"
                THEN /\ stack' = [stack EXCEPT ![Len(stack)].at = "ret",
                                               ![Len(stack)].attempts = 2,
                                               ![Len(stack)].answer = devs]
                     /\ UNCHANGED <<pc, raised, response>>
                ELSE Propagate(res)
    /\ UNCHANGED <<inputVars, state, ret>>
    /\ UNCHANGED warm

\* wrapper returns to its caller
WrapperReturn ==
    /\ TopIs("wrapper", "ret")
    /\ stack' = Pop
    /\ ret' = None
    /\ UNCHANGED <<pc, raised, response, inputVars, state, doorVars, logVars>>
    /\ UNCHANGED warm

\* _login, lines 64-71: the POST, the token of the answer, then the call
\* of the decorated _get_opener
Login ==
    /\ TopIs("_login", "L64")
    /\ \E st \in Statuses, body \in LoginBodies :
          /\ st # "ok" => body = "notoken"
          /\ nLogin' = nLogin + 1
          /\ IF st # "ok"
             THEN /\ Propagate("HTTPError")
                  /\ noToken' = Continued
                  /\ UNCHANGED security_token
             ELSE /\ security_token' =
                         IF body = "token" THEN "tok" ELSE security_token
                  /\ noToken' =
                         IF body = "notoken" /\ noToken = "no"
                         THEN "seen" ELSE Continued
                  /\ Call(Goto("ret"),
                          [Frame("wrapper", "L26", "get", None)
                               EXCEPT !.logins0 = nLogin + 1])
    /\ UNCHANGED <<inputVars, state, opener_id, opener_state, ret, queried, sent>>
    /\ UNCHANGED warm

LoginReturn ==
    /\ TopIs("_login", "ret")
    /\ stack' = Pop
    /\ ret' = None
    /\ UNCHANGED <<pc, raised, response, inputVars, state, doorVars, logVars>>
    /\ UNCHANGED warm

\* check_door_state, line 89
CheckDoorState ==
    /\ TopIs("check_door_state", "L89")
    /\ Call(Goto("L90"), Frame("wrapper", "L26", "get", None))
    /\ UNCHANGED <<inputVars, state, doorVars, ret, logVars>>
    /\ UNCHANGED warm

\* check_door_state, line 90
CheckDoorStateReturn ==
    /\ TopIs("check_door_state", "L90")
    /\ stack' = Pop
    /\ ret' = DOORSTATE_MAP(opener_state)
    /\ UNCHANGED <<pc, raised, response, inputVars, state, doorVars, logVars>>
    /\ UNCHANGED warm

\* toggle_door, line 112
ToggleDoor ==
    /\ TopIs("toggle_door", "L112")
    /\ Call(Goto("L113"), Frame("check_door_state", "L89", None, None))
    /\ UNCHANGED <<inputVars, state, doorVars, ret, logVars>>
    /\ UNCHANGED warm

\* toggle_door, lines 113-119: open_door or close_door, which call the
\* decorated _set_door_state
ToggleDoorSet ==
    /\ TopIs("toggle_door", "L113")
    /\ Call([stack EXCEPT ![Len(stack)].at = "ret",
                           ![Len(stack)].state = ret],
            Frame("wrapper", "L26", "set", ToggleValue(ret)))
    /\ UNCHANGED <<inputVars, state, doorVars, ret, logVars>>
    /\ UNCHANGED warm

ToggleDoorReturn ==
    /\ TopIs("toggle_door", "ret")
    /\ stack' = Pop
    /\ ret' = None
    /\ UNCHANGED <<pc, raised, response, inputVars, state, doorVars, logVars>>
    /\ UNCHANGED warm

\* ------------------------------------------------------------------ handler
\* a comparison made inclusive at the lower end
InAllowedHours_Inclusive(esthour) ==
    EARLIEST_ALLOWED <= esthour /\ esthour < LATEST_ALLOWED

\* line 157
InAllowedHours(esthour) ==
    EARLIEST_ALLOWED < esthour /\ esthour < LATEST_ALLOWED

\* the day check left out
WrongDay_Never(day, cleanerDay) == FALSE

\* line 153
WrongDay(day, cleanerDay) == DayName(day) # cleanerDay

\* the final else left out: a code that is not the cleaner's is the family's
Decide_NoElse(c, cleaner, family, day, cleanerDay, h) ==
    IF c = cleaner
    THEN IF WrongDay(day, cleanerDay)
         THEN <<"Deny", "done",
                "THIS CODE IS NOT ACTIVE TODAY. Event has been logged.">>
         ELSE IF InAllowedHours(h - EstOffset)
         THEN <<"ToggleDoor", "L158", None>>
         ELSE <<"ForceClose", "L162", None>>
    ELSE <<"ToggleDoor", "L167", None>>

\* the hours of the cleaner applied to the family code as well
Decide_FamilyHours(c, cleaner, family, day, cleanerDay, h) ==
    IF c = cleaner
    THEN IF WrongDay(day, cleanerDay)
         THEN <<"Deny", "done",
                "THIS CODE IS NOT ACTIVE TODAY. Event has been logged.">>
         ELSE IF InAllowedHours(h - EstOffset)
         THEN <<"ToggleDoor", "L158", None>>
         ELSE <<"ForceClose", "L162", None>>
    ELSE IF c = family
    THEN IF InAllowedHours(h - EstOffset)
         THEN <<"ToggleDoor", "L167", None>>
         ELSE <<"ForceClose", "L162", None>>
    ELSE <<"Deny", "done", "BAD CODE!">>

\* lines 152-172: the branch taken, as <<outcome, next line, response>>
Decide(c, cleaner, family, day, cleanerDay, h) ==
    IF c = cleaner
    THEN IF WrongDay(day, cleanerDay)
         THEN <<"Deny", "done",
                "THIS CODE IS NOT ACTIVE TODAY. Event has been logged.">>
         ELSE IF InAllowedHours(h - EstOffset)
         THEN <<"ToggleDoor", "L158", None>>
         ELSE <<"ForceClose", "L162", None>>
    ELSE IF c = family
    THEN <<"ToggleDoor", "L167", None>>
    ELSE <<"Deny", "done", "BAD CODE!">>

\* a door object taken over from the invocation before
NewDoor_Cached == <<security_token, opener_id, opener_state>>

\* MyQGarageDoor.__init__, called at line 150: token, opener id and opener
\* state of the new object
NewDoor == <<None, None, None>>

\* handler, lines 134-157 or 166 or 172: a new invocation up to its first
\* call of the door object (or to its return)
Invoke ==
    /\ pc = "idle"
    /\ \E ev \in Payloads, h \in Hours, d \in Weekdays, cc \in Codes,
          fc \in Codes, cd \in CleanerDays, kms \in BOOLEAN :
          LET c == DropPrefix(ev, PrefixLen)
              dec == Decide(c, cc, fc, d, cd, h)
              failure == IF ~kms THEN "KMSError"
                         ELSE IF ev = NoBody THEN "KeyError"
                         ELSE None
          IN /\ event' = ev
             /\ hour' = h
             /\ weekday' = d
             /\ CLEANER_CODE' = cc
             /\ FAMILY_CODE' = fc
             /\ CLEANER_DAY' = cd
             /\ IF failure # None
                THEN /\ Propagate(failure)
                     /\ code' = None
                     /\ outcome' = None
                ELSE /\ stack' = <<>>
                     /\ raised' = None
                     /\ code' = c
                     /\ outcome' = dec[1]
                     /\ pc' = dec[2]
                     /\ response' = dec[3]
    /\ state' = None
    /\ security_token' = NewDoor[1]
    /\ opener_id' = NewDoor[2]
    /\ opener_state' = NewDoor[3]
    /\ ret' = None
    /\ nLogin' = 0
    /\ queried' = FALSE
    /\ sent' = <<>>
    /\ noToken' = "no"
    /\ UNCHANGED warm

\* The handler reads the event, the clock and the configuration for the last
\* time when it branches (later they only appear in log lines, which are not
\* modelled): its first call of the door object drops them from the state.
\* `outcome` keeps the branch taken.
DropInputs ==
    /\ event' = <<>>
    /\ hour' = 0
    /\ weekday' = 0
    /\ CLEANER_CODE' = <<"1">>
    /\ FAMILY_CODE' = <<"2">>
    /\ CLEANER_DAY' = "Thursday"
    /\ code' = None
    /\ UNCHANGED outcome

\* the handler has returned and the function waits for the next event; its
\* locals are gone, the fields of its door object stay in the state until
\* the next invocation constructs its own object
Finish ==
    /\ pc = "done"
    /\ pc' = "idle"
    /\ event' = <<>>
    /\ hour' = 0
    /\ weekday' = 0
    /\ CLEANER_CODE' = <<"1">>
    /\ FAMILY_CODE' = <<"2">>
    /\ CLEANER_DAY' = "Thursday"
    /\ code' = None
    /\ outcome' = None
    /\ state' = None
    /\ response' = None
    /\ raised' = None
    /\ UNCHANGED doorVars
    /\ warm' = TRUE
    /\ stack' = <<>>
    /\ ret' = None
    /\ nLogin' = 0
    /\ queried' = FALSE
    /\ sent' = <<>>
    /\ noToken' = "no"

\* handler, line 158 or 168: door.toggle_door()
HandlerToggle ==
    /\ pc \in {"L158", "L168"}
    /\ stack = <<>>
    /\ state' = IF pc = "L168" THEN ret ELSE state
    /\ stack' = <<Frame("toggle_door", "L112", None, None)>>
    /\ pc' = "L174"
    /\ DropInputs
    /\ UNCHANGED <<raised, response, doorVars, ret, logVars>>
    /\ UNCHANGED warm

\* handler, line 162 or 167: state = door.check_door_state()
HandlerCheck ==
    /\ pc \in {"L162", "L167"}
    /\ stack = <<>>
    /\ stack' = <<Frame("check_door_state", "L89", None, None)>>
    /\ pc' = IF pc = "L162" THEN "L163" ELSE "L168"
    /\ DropInputs
    /\ UNCHANGED <<raised, response, state, doorVars, ret, logVars>>
    /\ UNCHANGED warm

\* the command of line 163, for the state line 162 observed
ForceCloseValue_Toggle(s) == ToggleValue(s)

\* line 163 calls close_door whatever state line 162 observed
ForceCloseValue(s) == close_door

\* handler, line 163: door.close_door()
HandlerClose ==
    /\ pc = "L163"
    /\ stack = <<>>
    /\ state' = ret
    /\ stack' = <<Frame("wrapper", "L26", "set", ForceCloseValue(ret))>>
    /\ pc' = "L174"
    /\ UNCHANGED <<raised, response, inputVars, doorVars, ret, logVars>>
    /\ UNCHANGED warm

\* handler, line 174
HandlerReturn ==
    /\ pc = "L174"
    /\ stack = <<>>
    /\ response' = "OK"
    /\ pc' = "done"
    /\ UNCHANGED <<raised, stack, inputVars, state, doorVars, ret, logVars>>
    /\ UNCHANGED warm

\* ------------------------------------------------------------ specification
Init ==
    /\ pc = "idle"
    /\ event = <<>>
    /\ hour = 0
    /\ weekday = 0
    /\ CLEANER_CODE = <<"1">>
    /\ FAMILY_CODE = <<"2">>
    /\ CLEANER_DAY = "Thursday"
    /\ code = None
    /\ outcome = None
    /\ state = None
    /\ response = None
    /\ raised = None
    /\ security_token = None
    /\ opener_id = None
    /\ opener_state = None
    /\ stack = <<>>
    /\ ret = None
    /\ nLogin = 0
    /\ queried = FALSE
    /\ sent = <<>>
    /\ noToken = "no"
    /\ warm = FALSE

DoorStep ==
    \/ WrapperEntry
    \/ WrapperTry
    \/ WrapperRetry
    \/ WrapperReturn
    \/ Login
    \/ LoginReturn
    \/ CheckDoorState
    \/ CheckDoorStateReturn
    \/ ToggleDoor
    \/ ToggleDoorSet
    \/ ToggleDoorReturn

HandlerStep ==
    \/ HandlerToggle
    \/ HandlerCheck
    \/ HandlerClose
    \/ HandlerReturn

Next == Invoke \/ HandlerStep \/ DoorStep \/ Finish

Spec == Init /\ [][Next]_vars

\* every started call of the handler keeps running: the remote calls block
\* until they are answered, and nothing else is scheduled
FairSpec == Spec /\ WF_vars(HandlerStep \/ DoorStep)

\* ------------------------------------------------------------------- claims
\* The handler has branched on inputs that are still in the state: the
\* invocation got past the secrets and the payload, and has not yet made
\* its first call of the door object.
Decided == pc # "idle" /\ code # None

WrongDayResponse == "THIS CODE IS NOT ACTIVE TODAY. Event has been logged."

\* no remote device API call was made in this invocation
NoApiCall == nLogin = 0 /\ ~queried /\ sent = <<>>

\* C1: a submitted code that is neither the cleaner code nor the family
\* code is denied at every hour and weekday: the handler returns the
\* bad-code response and the invocation makes no login, no device-list
\* query and no state-change request.
C1_UnknownCodeDenied ==
    (Decided /\ code # CLEANER_CODE /\ code # FAMILY_CODE)
        => /\ outcome = "Deny"
           /\ pc = "done"
           /\ response = "BAD CODE!"
           /\ stack = <<>>
           /\ NoApiCall

C1_Witness ==
    /\ Decided
    /\ event = CodePrefix \o <<"9">>
    /\ code = <<"9">>
    /\ response = "BAD CODE!"

\* C4: with the cleaner code on the cleaner day, the handler toggles
\* exactly when 7 < now.hour - 5 < 17, strictly, and force-closes at every
\* other hour, the two boundary hours and the negative ones included.
C4_CleanerHours ==
    (Decided /\ code = CLEANER_CODE /\ DayName(weekday) = CLEANER_DAY)
        => LET est == hour - 5
           IN IF 7 < est /\ est < 17
              THEN outcome = "ToggleDoor" /\ pc = "L158"
              ELSE outcome = "ForceClose" /\ pc = "L162"

C4_Witness ==
    /\ Decided
    /\ code = CLEANER_CODE
    /\ DayName(weekday) = CLEANER_DAY
    /\ hour - 5 = 7
    /\ outcome = "ForceClose"

\* C6: with the cleaner code on any other weekday than the cleaner day the
\* outcome is Deny at every hour, and no state-change request is sent.
C6_CleanerWrongDay ==
    (Decided /\ code = CLEANER_CODE /\ DayName(weekday) # CLEANER_DAY)
        => /\ outcome = "Deny"
           /\ pc = "done"
           /\ response = WrongDayResponse
           /\ stack = <<>>
           /\ sent = <<>>

C6_Witness ==
    /\ Decided
    /\ code = CLEANER_CODE
    /\ DayName(weekday) # CLEANER_DAY
    /\ hour - 5 = 12
    /\ response = WrongDayResponse

\* C7, as claimed: the family code toggles at every hour, on every weekday
\* and under every configured policy.
C7_FamilyAlwaysToggles ==
    (Decided /\ code = FAMILY_CODE) => outcome = "ToggleDoor"

\* C7, amended: a submitted code that is the family code and not also the
\* cleaner code toggles at every hour and on every weekday: the handler
\* goes to line 167, calls check_door_state and then toggle_door.
C7_FamilyToggles ==
    /\ (Decided /\ code = FAMILY_CODE /\ code # CLEANER_CODE)
           => outcome = "ToggleDoor" /\ pc = "L167"
    /\ pc \in {"L167", "L168"} => outcome = "ToggleDoor"
    /\ (pc = "L168" /\ stack # <<>>) => stack[1].fn = "check_door_state"
    /\ (pc = "L168" /\ stack = <<>>) => queried /\ sent = <<>>

C7_Witness ==
    /\ Decided
    /\ code = FAMILY_CODE
    /\ code # CLEANER_CODE
    /\ DayName(weekday) # CLEANER_DAY
    /\ hour = 3
    /\ pc = "L167"

DoorStates == {"Open", "Closed", "Opening", "Closing", "Unknown"}

IsSetCall(f, v) == f.fn = "wrapper" /\ f.func = "set" /\ f.value = v

\* C5: in the force-close branch the handler observes the door with
\* check_door_state and then calls close_door whatever it observed: every
\* state-change request of the invocation carries 0, none carries 1, and
\* with the door observed Closed a close request answered with success ends
\* the invocation with the success response.
C5_ForceCloseOnlyCloses ==
    outcome = "ForceClose"
        => /\ \A i \in DOMAIN sent : sent[i].value = 0
           /\ \A i \in DOMAIN stack :
                  (stack[i].fn = "wrapper" /\ stack[i].func = "set")
                      => stack[i].value = 0
           /\ pc = "L174" => state \in DoorStates /\ queried
           /\ (pc = "L174" /\ stack # <<>>) => IsSetCall(stack[1], 0)
           /\ pc \in {"L162", "L163"} => sent = <<>>
           /\ (pc = "done" /\ raised = None)
                  => /\ response = "OK"
                     /\ sent # <<>>
                     /\ sent[Len(sent)].status = "ok"

C5_Witness ==
    /\ outcome = "ForceClose"
    /\ state = "Closed"
    /\ pc = "done"
    /\ response = "OK"
    /\ Len(sent) = 1
    /\ sent[1].value = 0
    /\ sent[1].status = "ok"

\* the command the claim gives for an observed state
C8_Command(s) == IF s \in {"Closed", "Closing"} THEN 1 ELSE 0

\* C8: toggle_door sends the command that belongs to the state its own
\* check_door_state call returned: close (0) for Open, Opening and Unknown,
\* open (1) for Closed and Closing.
C8_ToggleCommand ==
    /\ TopIs("toggle_door", "L113") => ret = DOORSTATE_MAP(opener_state)
    /\ \A i \in DOMAIN stack :
           (stack[i].fn = "toggle_door" /\ stack[i].at = "ret")
               => /\ stack[i].state \in DoorStates
                  /\ i < Len(stack)
                         => IsSetCall(stack[i + 1], C8_Command(stack[i].state))
                  /\ (i + 1 = Len(stack) /\ stack[i + 1].at = "L26")
                         => stack[i].state = DOORSTATE_MAP(opener_state)
                  /\ \A j \in DOMAIN sent :
                         sent[j].value = C8_Command(stack[i].state)

C8_Witness ==
    /\ TopIs("toggle_door", "ret")
    /\ Top.state = "Unknown"
    /\ Len(sent) = 1
    /\ sent[1].value = 0
    /\ sent[1].status = "ok"

LoginFrames == {i \in DOMAIN stack : stack[i].fn = "_login"}

\* C2: the retry of a token-requiring operation is single-shot: no login
\* starts while another login of the call chain has not returned, an
\* operation runs login at most once more than the login it may start
\* with, and it never ends by running out of stack.
C2_SingleShotRetry ==
    /\ Cardinality(LoginFrames) <= 1
    /\ \A i \in DOMAIN stack :
           (stack[i].fn = "wrapper" /\ stack[i].held # None)
               => nLogin - stack[i].logins0
                      <= (IF stack[i].held = "yes" THEN 1 ELSE 2)
    /\ raised # "RecursionError"

\* C3: a token-requiring call made with a token held, whose first run
\* fails and whose retry succeeds, returns successfully after exactly one
\* login; no call is run a third time.
C3_OneAdditionalLogin ==
    \A i \in DOMAIN stack :
        stack[i].fn = "wrapper"
            => /\ stack[i].attempts <= 2
               /\ (stack[i].held = "yes" /\ stack[i].at = "ret"
                       /\ stack[i].attempts = 2)
                      => nLogin - stack[i].logins0 = 1

\* C9: a login answer without the token field makes login fail: the
\* invocation ends with that failure, and no device-list query, login or
\* state change follows the answer.
C9_NoTokenFails ==
    noToken # "no" => (noToken = "seen" /\ pc = "done" /\ raised # None)

Responses == {"OK", "BAD CODE!", WrongDayResponse, "Internal error"}

\* C10: every invocation ends by returning a response: whatever fails in
\* it (secrets, payload, login, device discovery, state change, the stack
\* running out) is caught by wrap_handler and answered with the
\* internal-error response; nothing reaches the caller as a fault.
C10_AlwaysResponds ==
    /\ [](pc = "done"
              => /\ response \in Responses
                 /\ stack = <<>>
                 /\ raised # None
                        => raised \in Exceptions /\ response = "Internal error")
    /\ (pc # "idle") ~> (pc = "done")

C10_Witness ==
    /\ pc = "done"
    /\ raised = "AssertionError"
    /\ queried
    /\ response = "Internal error"

\* C11: only an authorization failure is retried: a remote call answered
\* with another failure status is followed by no re-login and is not sent
\* again; in particular a state-change request so answered fails the
\* operation.
C11_OtherFailuresNotRetried ==
    /\ \A i \in DOMAIN stack :
           stack[i].fn = "wrapper" => stack[i].err # "servererror"
    /\ \A i \in DOMAIN sent :
           i < Len(sent) => sent[i].status # "servererror"

\* the positions of the garage door openers in a device list
OpenerAt(devs) == {i \in DOMAIN devs : devs[i].type = "GarageDoorOpener"}

FirstOpener(devs) ==
    devs[CHOOSE i \in OpenerAt(devs) : \A j \in OpenerAt(devs) : i <= j]

\* a device-list query of _get_opener has just been answered with success
\* and the decorated call is about to return
Answered(f) == f.fn = "wrapper" /\ f.func = "get" /\ f.at = "ret"

\* C12: every check_door_state call sends a device-list query, and the
\* state it returns is the mapping of a doorstate value found in the answer
\* to its latest query, Unknown when the answer has none; a value
\* remembered from an earlier query never decides it.
C12_CheckStateIsFresh ==
    /\ TopIs("check_door_state", "L90") => queried
    /\ (Len(stack) >= 2 /\ Answered(Top)
            /\ stack[Len(stack) - 1].fn = "check_door_state")
           => LET found == {Top.answer[i].doorstate : i \in OpenerAt(Top.answer)}
                               \ {None}
              IN IF found = {}
                 THEN DOORSTATE_MAP(opener_state) = "Unknown"
                 ELSE DOORSTATE_MAP(opener_state)
                          \in {DOORSTATE_MAP(v) : v \in found}

\* C13: a device-list answer without a garage door opener makes
\* _get_opener fail, also after an earlier discovery of the session
\* succeeded: no such query lets the call return.
C13_NoOpenerFails ==
    \A i \in DOMAIN stack :
        Answered(stack[i]) => OpenerAt(stack[i].answer) # {}

\* C14: after a device-list answer the recorded opener id is the id of the
\* first garage door opener of the list, and the recorded state is the
\* doorstate value of that device.
C14_FirstOpenerRecorded ==
    \A i \in DOMAIN stack :
        (Answered(stack[i]) /\ i = Len(stack)
             /\ OpenerAt(stack[i].answer) # {})
            => LET d == FirstOpener(stack[i].answer)
               IN /\ opener_id = d.id
                  /\ d.doorstate # None => opener_state = d.doorstate

\* C15: an authentication failure of a remote call clears the token and
\* the opener id before the re-login starts, so an operation that then
\* fails leaves the session without a token.
C15_TokenInvalidated ==
    /\ \A i \in DOMAIN stack :
           (i > 1 /\ stack[i].fn = "_login" /\ stack[i].at = "L64"
                /\ stack[i - 1].at = "L33")
               => security_token = None /\ opener_id = None
    /\ (pc = "done" /\ raised = "HTTPError" /\ nLogin >= 2 /\ noToken = "no")
           => security_token = None

\* the payload begins with code=
HasPrefix(ev) == Len(ev) >= 5 /\ SubSeq(ev, 1, 5) = CodePrefix

\* C16: a payload that is empty or does not begin with code= is an
\* unrecognized code under every configured pair of codes: it is denied and
\* never leads to a door action.
C16_PrefixRequired ==
    (Decided /\ ~HasPrefix(event))
        => outcome = "Deny" /\ pc = "done" /\ sent = <<>>

C18_FreshSession ==
    (pc # "idle" /\ nLogin = 0)
        => /\ security_token = None
           /\ opener_id = None
           /\ opener_state = None
           /\ ~queried
           /\ sent = <<>>

C18_Witness ==
    /\ warm
    /\ TopIs("_login", "L64")
    /\ nLogin = 0
    /\ security_token = None

\* C19: all state-change requests of an invocation carry the same value:
\* the retry after a re-login sends the command chosen before the failure,
\* whatever door state the re-login has read.
C19_RetrySendsSameCommand ==
    \A i, j \in DOMAIN sent : sent[i].value = sent[j].value

C19_Witness ==
    /\ Len(stack) > 0
    /\ stack[1].fn = "toggle_door"
    /\ stack[1].state = "Closed"
    /\ Len(sent) = 2
    /\ sent[1].value = 1
    /\ sent[2].value = 1
    /\ sent[2].status = "ok"
    /\ DOORSTATE_MAP(opener_state) = "Open"

\* C20: the handler answers 'OK' only after a state-change request whose
\* last sending was answered with success; a failure that leaves the door
\* object is answered with the internal-error response.
C20_OkMeansCommandAccepted ==
    /\ response = "OK"
           => /\ sent # <<>>
              /\ sent[Len(sent)].status = "ok"
              /\ raised = None
    /\ raised # None => response = "Internal error"
    /\ (sent # <<>> /\ sent[Len(sent)].status # "ok" /\ pc = "done")
           => response = "Internal error"

C20_Witness ==
    /\ response = "OK"
    /\ Len(sent) = 2
    /\ sent[1].status = "servererror"
    /\ sent[2].status = "ok"

====
